---- MODULE Spec2Model ----
(***************************************************************************)
(* fedimg/services/ec2.py: EC2Service, one upload run (Spec,               *)
(* SpecReplicas, FairSpec) and two runs side by side (SpecTwoRuns).        *)
(*                                                                         *)
(* The state is the EC2Service object's fields, the locals of upload()     *)
(* that live across statements, the position of the control flow (pc),     *)
(* and two histories: the calls made on libcloud drivers (calls) and the   *)
(* fedmsg notifications sent (msgs).  Every statement of upload() that     *)
(* calls out of the module is one action with one outcome per way the      *)
(* call can end (a value, or an exception).                                *)
(*                                                                         *)
(* upload() uses names that the module never binds: the keyword `outout`   *)
(* of match_regex_pattern (line 210; the parameter is `output`, line 626), *)
(* the globals create_snapshot (215), snap_id (251), step_1 (305), sizes   *)
(* (313), re (635, 663) and snap_name (684).  In the module as it stands   *)
(* each of these statements raises (TypeError, NameError) whenever it is   *)
(* run: no run of upload() gets past line 210, and every run takes a       *)
(* handler of lines 411-438 or raises out of upload().                     *)
(*                                                                         *)
(* `patched` is FALSE for the module as it stands.  It is TRUE for a       *)
(* process holding one EC2Service object that has replaced                 *)
(* match_regex_pattern and assigned the missing globals before calling     *)
(* upload() (create_snapshot to the object's method of lines 670-686);     *)
(* only there do the statements after line 210 run.  The                   *)
(* runs with `patched` are kept so that what the text of lines 213-565     *)
(* does can be checked; they are no runs of the module as it stands, and   *)
(* nothing is held against the module on the strength of them.             *)
(***************************************************************************)
EXTENDS Integers, Sequences, FiniteSets, TLC

\* ---------------------------------------------------------------- bounds

\* The longest catalog text (number of lines of fedimg.AWS_AMIS).
MaxLines == 2

\* The number of duplicate-name rejections the provider may answer in a run.
MaxDup == 1

\* The number of 'image not yet available' answers to make-public in a run.
MaxUnavailable == 1

\* The number of polls of _check_snapshot_exists in a run that end in an
\* exception and are tried again.
MaxSnapshotPolls == 1

\* The most regions an image is copied to, in the runs that start from a
\* catalog of x86_64 lines only.
MaxReplicas == 2

\* ------------------------------------------------------------- constants

\* Python's None where a resource handle is expected.  Handles are records:
\* kind (volume, snapshot, node, image), the region they live in, a tag
\* (util/test for nodes, PV/HVM for an image name) and, for an image, the
\* number that ends its name.
None == [kind |-> "none", region |-> "", tag |-> "", n |-> 0]

Regions == {"us-east-1", "eu-west-1"}

Archs == {"x86_64", "i386"}

VirtTypes == {"paravirtual", "hvm"}

\* One line of fedimg.AWS_AMIS after strip().split('|'): nf is len(attrs)
\* (4: region|arch|ami|aki, 6: region|os|ver|arch|ami|aki, 1: a blank line).
Lines ==
    {[nf |-> 4, region |-> r, arch |-> a] : r \in Regions, a \in Archs}
      \cup {[nf |-> 6, region |-> "us-east-1", arch |-> "x86_64"],
            [nf |-> 1, region |-> "", arch |-> ""]}

\* The catalog texts: AWS_AMIS.split('\n') has at least one element.
RECURSIVE CatalogsOfLen(_)
CatalogsOfLen(n) ==
    IF n = 0 THEN {<<>>}
    ELSE {Append(c, l) : c \in CatalogsOfLen(n - 1), l \in Lines}

\* The catalog texts of up to MaxLines lines in which no line is written
\* twice.
Catalogs ==
    {c \in UNION {CatalogsOfLen(n) : n \in 1..MaxLines} :
        \A i, j \in DOMAIN c : i # j => c[i] # c[j]}

\* Names of regions for the catalogs below, in the order of their lines.
ReplicaPool == <<"us-east-1", "eu-west-1", "ap-southeast-1", "sa-east-1">>

\* Catalogs of 4-field x86_64 lines, one region per line: the first line
\* is the origin, every further line a region to copy to.
ReplicaCatalogs ==
    {[i \in 1..n |-> [nf |-> 4, region |-> ReplicaPool[i], arch |-> "x86_64"]] :
        n \in 1..(MaxReplicas + 1)}

VARIABLES
    \* configuration (fedimg.*) and the process upload() runs in
    AWS_AMIS, CLEAN_UP_ON_FAILURE, DELETE_IMAGES_ON_FAILURE, patched,
    \* constructor arguments
    virt_type, image_arch,
    \* fields of the EC2Service object
    util_amis, test_amis, util_node, util_volume, images, snapshot,
    test_node, test_success, dup_count, driver,
    \* locals of upload() and _clean_up()
    image_name, registration_aki, copied_images, ix, delete_images, after,
    \* control
    pc, exc, raised_at, status, unavailable,
    \* histories
    calls, msgs,
    \* a second EC2Service object in the same process: which of the two the
    \* variables above belong to (who), and the other object's fields,
    \* locals, position and histories (other)
    who, other

vars == <<AWS_AMIS, CLEAN_UP_ON_FAILURE, DELETE_IMAGES_ON_FAILURE, patched,
          who, other, virt_type, image_arch,
          util_amis, test_amis, util_node, util_volume, images, snapshot,
          test_node, test_success, dup_count, driver,
          image_name, registration_aki, copied_images, ix, delete_images,
          after, pc, exc, raised_at, status, unavailable, calls, msgs>>

\* What a step of a run only reads or has no name for (no statement of
\* the class names another EC2Service object), and the count of 'not yet
\* available' answers, which only MakeCopyPublic changes.
config == <<AWS_AMIS, CLEAN_UP_ON_FAILURE, DELETE_IMAGES_ON_FAILURE,
            patched, who, other, virt_type, image_arch, unavailable>>

handles == <<util_node, util_volume, images, snapshot, test_node>>

locals == <<image_name, registration_aki, copied_images, ix,
            delete_images, after>>

\* ------------------------------------------------------------ __init__

\* The dict built from one 4- or 6-field line (lines 104-119).
InfoOf(l) ==
    [region |-> l.region, driver |-> l.region, arch |-> l.arch,
     aki |-> [kind |-> "aki", region |-> l.region, tag |-> l.arch, n |-> 0]]

\* `info` before the first assignment to it.
Unbound == [region |-> "", driver |-> "", arch |-> "unbound", aki |-> None]

\* The loop of lines 90-126 from line i on: `info` is assigned only for a
\* line of 4 or 6 fields, and is appended for every line.
RECURSIVE ParseFrom(_, _, _, _)
ParseFrom(lines, i, info, acc) ==
    IF i > Len(lines) THEN [raised |-> FALSE, amis |-> acc]
    ELSE LET l == lines[i]
             now == IF l.nf = 6 \/ l.nf = 4 THEN InfoOf(l) ELSE info
         IN IF now = Unbound
            THEN [raised |-> TRUE, amis |-> acc]
            ELSE ParseFrom(lines, i + 1, now, Append(acc, now))

ParseCatalog(lines) == ParseFrom(lines, 1, Unbound, <<>>)

\* A list comprehension [a for a in amis if a['arch'] == arch].
RECURSIVE FilterArch(_, _)
FilterArch(amis, arch) ==
    IF amis = <<>> THEN <<>>
    ELSE IF Head(amis).arch = arch
         THEN <<Head(amis)>> \o FilterArch(Tail(amis), arch)
         ELSE FilterArch(Tail(amis), arch)

\* The state __init__ leaves (lines 66-142), for a catalog text out of
\* `catalogs` and an image of an architecture out of `archs`.
Construct(catalogs, archs) ==
    /\ AWS_AMIS \in catalogs
    /\ CLEAN_UP_ON_FAILURE \in BOOLEAN
    /\ DELETE_IMAGES_ON_FAILURE \in BOOLEAN
    /\ patched \in BOOLEAN
    /\ virt_type \in VirtTypes
    /\ image_arch \in archs
    /\ LET parsed == ParseCatalog(AWS_AMIS)
       IN /\ util_amis = IF parsed.raised THEN <<>>
                         ELSE FilterArch(parsed.amis, "x86_64")
          /\ test_amis = IF parsed.raised THEN <<>>
                         ELSE FilterArch(parsed.amis, image_arch)
          /\ pc = IF parsed.raised THEN "done" ELSE "start"
          /\ status = IF parsed.raised THEN "init raised" ELSE "running"
    /\ util_node = None
    /\ util_volume = None
    /\ images = <<>>
    /\ snapshot = None
    /\ test_node = None
    /\ test_success = FALSE
    /\ dup_count = 0
    /\ driver = "unset"
    /\ image_name = None
    /\ registration_aki = None
    /\ copied_images = <<>>
    /\ ix = 0
    /\ delete_images = FALSE
    /\ after = "none"
    /\ exc = "none"
    /\ raised_at = "none"
    /\ unavailable = 0
    /\ calls = <<>>
    /\ msgs = <<>>

\* No second object.
NoRun == [pc |-> "none"]

\* The process holds one EC2Service object.
OneRun ==
    /\ who = 1
    /\ other = NoRun

Init == Construct(Catalogs, Archs) /\ OneRun

\* An x86_64 image and a catalog of x86_64 lines.
InitReplicas == Construct(ReplicaCatalogs, {"x86_64"}) /\ OneRun

\* ------------------------------------------------------------- helpers

\* A call on a libcloud driver: the method, the region of the driver it is
\* made on, the handle or name it is about, the source region (copy_image
\* only), the function making it, whether it returned or raised, and the
\* error code in the message of what it raised.
Call(op, drv, tgt, src, by, ok) ==
    [op |-> op, drv |-> drv, tgt |-> tgt, src |-> src, by |-> by, ok |-> ok,
     err |-> IF ok THEN "" ELSE "error", root |-> "", kernel |-> None]

\* The call c raised an exception whose message holds the code `code`.
Rejected(c, code) == [c EXCEPT !.ok = FALSE, !.err = code]

\* fedimg.messenger.message(topic, build_name, dest, phase, extra): dest is
\* the region of 'EC2 (region)', id the image of extra['id'], data the
\* extra['data'] of a failed test ("" when the key is absent).
Message(topic, dest, phase, id, data) ==
    [topic |-> topic, dest |-> dest, phase |-> phase, id |-> id, data |-> data]

\* The exception e leaves the try body of upload() (lines 187-409);
\* raised_at keeps the statement it came from.
Raise(e) ==
    /\ exc' = e
    /\ raised_at' = pc
    /\ pc' = "except"

\* An exception leaves upload() itself.
Escape ==
    /\ pc' = "done"
    /\ status' = "raised"

\* ami = self.util_amis[0]; region = ami['region'] (lines 177-178).
origin == util_amis[1].region

VirtTag == IF virt_type = "paravirtual" THEN "PV" ELSE "HVM"

\* "{0}-{1}-PV-{2}-0" / "{0}-{1}-HVM-{2}-0" (lines 231, 240, 466, 469):
\* the parts of the name that vary, the last being the trailing number.
FirstName(region) ==
    [kind |-> "name", region |-> region, tag |-> VirtTag, n |-> 0]

\* Mutant of Rename: the name is left as it is.
Rename_KeepsNumber(name, dup) == name

\* Lines 261-265 and 480-484: with dup_count > 0 the trailing number is
\* cut off and dup_count put in its place.
Rename(name, dup) == IF dup > 0 THEN [name EXCEPT !.n = dup] ELSE name

\* The file name of the artifact (line 130), cut at the suffix that line
\* 131 looks for, and the volume type (the default of line 66).
file_name == <<"fedora-cloud-31-1", ".raw.xz">>

vol_type == "standard"

\* self.file_name.replace('.raw.xz', '') (line 131).
BuildName(f) == SelectSeq(f, LAMBDA part : part # ".raw.xz")

\* The text of a name, by the fields of the template
\* "{build_name}-{region}-{PV|HVM}-{vol_type}-{number}".
NameText(name) ==
    [build |-> BuildName(file_name), region |-> name.region,
     virt |-> name.tag, vol |-> vol_type, number |-> name.n]

\* The image a registration under `name` returns, and the one a copy does.
ImageOf(name) == [name EXCEPT !.kind = "image"]

CopyOf(name) == [name EXCEPT !.kind = "copy"]

\* ------------------------------------------------- upload(): origin phase

\* Mutant of Start: the origin is taken out of the utility set
\* (self.util_amis.pop(0) for self.util_amis[0]).
Start_PopsOrigin ==
    /\ pc = "start"
    /\ IF util_amis = <<>>
       THEN /\ Escape
            /\ UNCHANGED <<msgs, util_amis>>
       ELSE /\ util_amis' = Tail(util_amis)
            /\ msgs' = Append(msgs, Message("image.upload", origin, "started",
                                            None, ""))
            /\ \/ /\ pc' = "connect"
                  /\ UNCHANGED status
               \/ Escape
    /\ UNCHANGED <<config, test_amis, handles, test_success,
                   dup_count, driver, locals, exc, raised_at, calls>>

\* Lines 174-185: the origin is the first utility AMI; with no x86_64 entry
\* in the catalog the subscript raises IndexError outside the try.
Start ==
    /\ pc = "start"
    /\ IF util_amis = <<>>
       THEN /\ Escape
            /\ UNCHANGED msgs
       ELSE /\ msgs' = Append(msgs, Message("image.upload", origin, "started",
                                            None, ""))
            /\ \/ /\ pc' = "connect"
                  /\ UNCHANGED status
               \/ Escape
    /\ UNCHANGED <<config, util_amis, test_amis, handles, test_success,
                   dup_count, driver, locals, exc, raised_at, calls>>

\* Mutant of Connect: the driver is an attribute of the class, one for
\* every object.
Connect_SharedDriver ==
    /\ pc = "connect"
    /\ \/ /\ driver' = origin
          /\ other' = IF other = NoRun THEN other
                      ELSE [other EXCEPT !.driver = origin]
          /\ pc' = "download"
          /\ UNCHANGED <<exc, raised_at>>
       \/ /\ Raise("Exception")
          /\ UNCHANGED <<driver, other>>
    /\ UNCHANGED <<AWS_AMIS, CLEAN_UP_ON_FAILURE, DELETE_IMAGES_ON_FAILURE,
                   patched, who, virt_type, image_arch, unavailable,
                   util_amis, test_amis, handles, test_success,
                   dup_count, locals, status, calls, msgs>>

\* Lines 189-190: self.driver is first assigned here.
Connect ==
    /\ pc = "connect"
    /\ \/ /\ driver' = origin
          /\ pc' = "download"
          /\ UNCHANGED <<exc, raised_at>>
       \/ /\ Raise("Exception")
          /\ UNCHANGED driver
    /\ UNCHANGED <<config, util_amis, test_amis, handles, test_success,
                   dup_count, locals, status, calls, msgs>>

\* A statement of the try body that changes no field: it continues at
\* `next` or raises.
Plain(at, next) ==
    /\ pc = at
    /\ \/ /\ pc' = next
          /\ UNCHANGED <<exc, raised_at>>
       \/ Raise("Exception")
    /\ UNCHANGED <<config, util_amis, test_amis, handles, test_success,
                   dup_count, driver, locals, status, calls, msgs>>

\* Line 196: wget through run_system_command.
DownloadImage == Plain("download", "import")

\* Lines 198-207, 575-577: ex_list_availability_zones on self.driver,
\* which returns or raises; the first zone of the answer (IndexError when
\* it is empty); and euca-import-volume through run_system_command, which
\* may raise.
ImportVolume ==
    /\ pc = "import"
    /\ \/ /\ calls' = Append(calls, Call("ex_list_availability_zones",
                                          driver, None, "", "upload", TRUE))
          /\ \/ /\ pc' = "match"
                /\ UNCHANGED <<exc, raised_at>>
             \/ Raise("Exception")
       \/ /\ calls' = Append(calls, Call("ex_list_availability_zones",
                                          driver, None, "", "upload", FALSE))
          /\ Raise("Exception")
    /\ UNCHANGED <<config, util_amis, test_amis, handles, test_success,
                   dup_count, driver, locals, status, msgs>>

\* Lines 209-211: match_regex_pattern(self, regex, output) is called with
\* the keyword `outout`: TypeError, at every call of the method of line
\* 626.  No remote call is made.  With the method replaced (patched) the
\* task id is cut out of the output of the command.
MatchTaskId ==
    /\ pc = "match"
    /\ \/ /\ patched
          /\ pc' = "convert"
          /\ UNCHANGED <<exc, raised_at>>
       \/ Raise("Exception")
    /\ UNCHANGED <<config, util_amis, test_amis, handles, test_success,
                   dup_count, driver, locals, status, calls, msgs>>

\* Line 213, lines 641-667: one poll of euca-describe-conversion-tasks.
\* With 'completed' in the output the volume id is returned.  Without it
\* the result is '', and the decorator (retrying.retry with retry_on_result
\* and no stop condition) waits 5 s and polls again; it does the same
\* when the poll raises, so no exception leaves the function.  Line 663
\* reads `re`, which the module does not import: unpatched, a poll that
\* sees 'completed' raises NameError and is polled again like any other.
DescribeConversionTasks ==
    \/ /\ pc = "convert"
       /\ patched
       /\ pc' = "create_snapshot"
       /\ UNCHANGED <<config, util_amis, test_amis, handles, test_success,
                      dup_count, driver, locals, exc, raised_at, status,
                      calls, msgs>>
    \/ /\ pc = "convert"
       /\ UNCHANGED vars

\* Lines 670-684, the method create_snapshot on the object: the volume
\* is looked up by id in list_volumes(), which may raise, or return
\* without the volume (IndexError); line 684 reads snap_name, which the
\* module does not bind (NameError, with self.util_volume assigned); with
\* the name bound (patched) create_volume_snapshot is called, which may
\* raise.
create_snapshot ==
    LET vol == [kind |-> "volume", region |-> driver, tag |-> "util",
                n |-> 0]
    IN \/ \E listed \in BOOLEAN :
             /\ calls' = Append(calls, Call("list_volumes", driver, vol,
                                            "", "upload", listed))
             /\ Raise("Exception")
             /\ UNCHANGED <<util_volume, snapshot>>
       \/ /\ util_volume' = vol
          /\ calls' = Append(calls, Call("list_volumes", driver, vol,
                                         "", "upload", TRUE))
          /\ Raise("Exception")
          /\ UNCHANGED snapshot
       \/ /\ patched
          /\ util_volume' = vol
          /\ calls' = calls \o
               <<Call("list_volumes", driver, vol, "", "upload", TRUE),
                 Call("create_volume_snapshot", driver, vol, "",
                      "upload", FALSE)>>
          /\ Raise("Exception")
          /\ UNCHANGED snapshot
       \/ \E st \in {"pending", "completed"} :
             /\ patched
             /\ util_volume' = vol
             /\ snapshot' = [kind |-> "snapshot", region |-> driver,
                             tag |-> st, n |-> 0]
             /\ calls' = calls \o
                  <<Call("list_volumes", driver, vol, "", "upload", TRUE),
                    Call("create_volume_snapshot", driver, vol, "",
                         "upload", TRUE)>>
             /\ pc' = "check_snapshot"
             /\ UNCHANGED <<exc, raised_at>>

\* Line 215: create_snapshot(volume_id) reads the global create_snapshot,
\* which the module does not bind: NameError, with no call made and the
\* method not entered.  Patched, the name is bound to the method of the
\* one object of the process, and the method runs.
CreateSnapshot ==
    /\ pc = "create_snapshot"
    /\ \/ /\ Raise("Exception")
          /\ UNCHANGED <<util_volume, snapshot, calls>>
       \/ /\ patched
          /\ other = NoRun
          /\ create_snapshot
    /\ UNCHANGED <<config, util_amis, test_amis, util_node, images,
                   test_node, test_success, dup_count, driver, locals,
                   status, msgs>>

\* A list_snapshots call of line 698.
ListSnapshots(ok) == Call("list_snapshots", driver, None, "", "upload", ok)

\* The polls of the wait so far: each made one list_snapshots call, ended
\* in an exception and was tried again.
RetriedPolls ==
    Cardinality({i \in DOMAIN calls : calls[i].op = "list_snapshots"})

\* Lines 686, 689-704, one poll: with a state other than 'completed' the
\* snapshot is fetched again from list_snapshots() and True is returned;
\* when list_snapshots() raises or does not list it (IndexError) the
\* decorator (retrying.retry, no stop condition) waits 10 s and polls
\* again, and no exception leaves the function; with state 'completed'
\* False is returned, the decorator polls again, and nothing has changed.
CheckSnapshotExists ==
    /\ pc = "check_snapshot"
    /\ IF snapshot.tag # "completed"
       THEN \/ \E st \in {"pending", "completed"} :
                 /\ calls' = Append(calls, ListSnapshots(TRUE))
                 /\ snapshot' = [snapshot EXCEPT !.tag = st]
                 /\ pc' = "destroy_volume"
            \/ \E ok \in BOOLEAN :
                 /\ RetriedPolls < MaxSnapshotPolls
                 /\ calls' = Append(calls, ListSnapshots(ok))
                 /\ UNCHANGED <<snapshot, pc>>
       ELSE UNCHANGED <<snapshot, pc, calls>>
    /\ UNCHANGED <<exc, raised_at>>
    /\ UNCHANGED <<config, util_amis, test_amis, util_node, util_volume,
                   images, test_node, test_success, dup_count, driver,
                   locals, status, msgs>>

\* Lines 219-223.
DestroyUtilVolume ==
    /\ pc = "destroy_volume"
    /\ \/ /\ calls' = Append(calls, Call("destroy_volume", driver,
                             util_volume, "", "upload", TRUE))
          /\ util_volume' = None
          /\ pc' = "prepare_registration"
          /\ UNCHANGED <<exc, raised_at>>
       \/ /\ calls' = Append(calls, Call("destroy_volume", driver,
                             util_volume, "", "upload", FALSE))
          /\ Raise("Exception")
          /\ UNCHANGED util_volume
    /\ UNCHANGED <<config, util_amis, test_amis, util_node, images,
                   snapshot, test_node, test_success, dup_count, driver,
                   locals, status, msgs>>

\* [a['aki'] for a in self.test_amis if a['region'] == region] (line 236).
RECURSIVE AkisIn(_, _)
AkisIn(amis, region) ==
    IF amis = <<>> THEN <<>>
    ELSE IF Head(amis).region = region
         THEN <<Head(amis).aki>> \o AkisIn(Tail(amis), region)
         ELSE AkisIn(Tail(amis), region)

\* Lines 230-254: the name, the kernel id (paravirtual: the first test AMI
\* of the origin region, IndexError when there is none; hvm: None) and the
\* block device mapping, which reads snap_id: NameError at line 251 unless
\* the name has been bound (patched).
PrepareRegistration ==
    /\ pc = "prepare_registration"
    /\ LET akis == AkisIn(test_amis, origin)
       IN \/ /\ patched
             /\ virt_type = "paravirtual" => akis # <<>>
             /\ image_name' = FirstName(origin)
             /\ registration_aki' = IF virt_type = "paravirtual"
                                     THEN akis[1] ELSE None
             /\ pc' = "register"
             /\ UNCHANGED <<exc, raised_at>>
          \/ /\ Raise("Exception")
             /\ image_name' = FirstName(origin)
             /\ registration_aki' =
                  IF virt_type # "paravirtual" THEN None
                  ELSE IF akis # <<>> THEN akis[1] ELSE registration_aki
    /\ UNCHANGED <<config, util_amis, test_amis, handles, test_success,
                   dup_count, driver, copied_images, ix, delete_images,
                   after, status, calls, msgs>>

\* Mutant of RootDevice: the device of the hvm branch for both types.
RootDevice_AlwaysSda1 == "/dev/sda1"

\* reg_root_device_name (lines 238, 246).
RootDevice == IF virt_type = "paravirtual" THEN "/dev/sda" ELSE "/dev/sda1"

\* The ex_register_image call of lines 267-274.
RegisterCall(name, ok) ==
    [Call("ex_register_image", driver, name, "", "upload", ok)
       EXCEPT !.root = RootDevice, !.kernel = registration_aki]

\* Lines 259-283, one turn of the loop: the name is adjusted to dup_count,
\* registration is tried; the image is appended and the loop left, or the
\* error names InvalidAMIName.Duplicate and dup_count grows, or the error
\* is raised again.
\* (e.message is the Python 2 attribute every exception has: the text of
\* the error.)
RegisterImage ==
    /\ pc = "register"
    /\ LET name == Rename(image_name, dup_count)
       IN /\ image_name' = name
          /\ \/ /\ calls' = Append(calls, RegisterCall(name, TRUE))
                /\ images' = Append(images, ImageOf(name))
                /\ pc' = "notify_uploaded"
                /\ UNCHANGED <<dup_count, exc, raised_at>>
             \/ /\ dup_count < MaxDup
                /\ calls' = Append(calls, Rejected(RegisterCall(name, FALSE),
                                                   "InvalidAMIName.Duplicate"))
                /\ dup_count' = dup_count + 1
                /\ UNCHANGED <<images, pc, exc, raised_at>>
             \/ /\ calls' = Append(calls, RegisterCall(name, FALSE))
                /\ Raise("Exception")
                /\ UNCHANGED <<images, dup_count>>
    /\ UNCHANGED <<config, util_amis, test_amis, util_node, util_volume,
                   snapshot, test_node, test_success, driver,
                   registration_aki, copied_images, ix, delete_images,
                   after, status, msgs>>

\* The 'completed' messages of lines 290-295, one per image.
RECURSIVE UploadedMsgs(_)
UploadedMsgs(imgs) ==
    IF imgs = <<>> THEN <<>>
    ELSE <<Message("image.upload", origin, "completed", Head(imgs), "")>>
           \o UploadedMsgs(Tail(imgs))

\* Lines 285-295: every message is sent, or sending the k-th raises.
NotifyUploaded ==
    /\ pc = "notify_uploaded"
    /\ \/ /\ msgs' = msgs \o UploadedMsgs(images)
          /\ pc' = "prepare_test"
          /\ UNCHANGED <<exc, raised_at>>
       \/ \E k \in 1..Len(images) :
             /\ msgs' = msgs \o SubSeq(UploadedMsgs(images), 1, k)
             /\ Raise("Exception")
    /\ UNCHANGED <<config, util_amis, test_amis, handles, test_success,
                   dup_count, driver, locals, status, calls>>

\* Lines 297-320: the deployment reads step_1 (line 305) and the size
\* reads sizes (line 313): NameError unless the names have been bound
\* (patched).  Patched: IndexError when no size matches, then the
\* 'image.test started' message, which is sent or raises.
PrepareTest ==
    /\ pc = "prepare_test"
    /\ \/ /\ patched
          /\ msgs' = Append(msgs, Message("image.test", origin, "started",
                                          images[1], ""))
          /\ \/ /\ pc' = "deploy"
                /\ UNCHANGED <<exc, raised_at>>
             \/ Raise("Exception")
       \/ /\ Raise("Exception")
          /\ UNCHANGED msgs
    /\ UNCHANGED <<config, util_amis, test_amis, handles, test_success,
                   dup_count, driver, locals, status, calls>>

\* Lines 322-342: any exception of deploy_node is answered by an
\* 'image.test failed' message and raised again as EC2AMITestException;
\* when sending the message raises, that exception leaves the handler.
DeployTestNode ==
    /\ pc = "deploy"
    /\ \/ /\ calls' = Append(calls, Call("deploy_node", driver, images[1],
                                          "", "upload", TRUE))
          /\ test_node' = [kind |-> "node", region |-> driver,
                           tag |-> "test", n |-> 0]
          /\ pc' = "wait_ssh"
          /\ UNCHANGED <<msgs, exc, raised_at>>
       \/ /\ calls' = Append(calls, Call("deploy_node", driver, images[1],
                                          "", "upload", FALSE))
          /\ msgs' = Append(msgs, Message("image.test", origin, "failed",
                                          images[1], ""))
          /\ \E e \in {"EC2AMITestException", "Exception"} : Raise(e)
          /\ UNCHANGED test_node
    /\ UNCHANGED <<config, util_amis, test_amis, util_node, util_volume,
                   images, snapshot, test_success, dup_count, driver,
                   locals, status>>

\* Lines 344-348: one turn of the wait for SSH on the test node.
WaitSSH ==
    \/ Plain("wait_ssh", "open_channel")
    \/ /\ pc = "wait_ssh"
       /\ UNCHANGED vars

\* Lines 350-366: the SSH client connects, a session channel is opened, a
\* pty requested and /bin/true sent.
OpenChannel == Plain("open_channel", "run_test")

\* The data of a failed test (lines 373-375): what the channel had ready,
\* else the placeholder.
TestData == {"(no data)", "output"}

\* Mutant of RunTest: a nonzero exit status sends the 'failed' message but
\* raises nothing, and the run goes on to line 400.
RunTest_FailureContinues ==
    /\ pc = "run_test"
    /\ \/ /\ msgs' = Append(msgs, Message("image.test", origin, "completed",
                                          images[1], ""))
          /\ \/ /\ test_success' = TRUE
                /\ pc' = "destroy_test_node"
                /\ UNCHANGED <<exc, raised_at>>
             \/ /\ Raise("Exception")
                /\ UNCHANGED test_success
       \/ \E data \in TestData :
             /\ msgs' = Append(msgs, Message("image.test", origin, "failed",
                                             images[1], data))
             /\ pc' = "destroy_test_node"
             /\ UNCHANGED <<test_success, exc, raised_at>>
       \/ /\ Raise("Exception")
          /\ UNCHANGED <<msgs, test_success>>
    /\ UNCHANGED <<config, util_amis, test_amis, handles, dup_count,
                   driver, locals, status, calls>>

\* Lines 368-398: the exit status of the test command decides.  A zero
\* status closes the client and sends 'image.test completed'; a nonzero one
\* sends 'image.test failed' with the data and raises
\* EC2AMITestException.  recv_exit_status, recv_ready, recv and
\* client.close may raise, with no message sent; sending a message may
\* raise.
RunTest ==
    /\ pc = "run_test"
    /\ \/ /\ msgs' = Append(msgs, Message("image.test", origin, "completed",
                                          images[1], ""))
          /\ \/ /\ test_success' = TRUE
                /\ pc' = "destroy_test_node"
                /\ UNCHANGED <<exc, raised_at>>
             \/ /\ Raise("Exception")
                /\ UNCHANGED test_success
       \/ \E data \in TestData, e \in {"EC2AMITestException", "Exception"} :
             /\ msgs' = Append(msgs, Message("image.test", origin, "failed",
                                             images[1], data))
             /\ Raise(e)
             /\ UNCHANGED test_success
       \/ /\ Raise("Exception")
          /\ UNCHANGED <<msgs, test_success>>
    /\ UNCHANGED <<config, util_amis, test_amis, handles, dup_count,
                   driver, locals, status, calls>>

\* Lines 400-403: the node is destroyed, self.test_node keeps the handle.
DestroyTestNode ==
    /\ pc = "destroy_test_node"
    /\ \/ /\ calls' = Append(calls, Call("destroy_node", driver, test_node,
                                          "", "upload", TRUE))
          /\ pc' = "make_public"
          /\ ix' = 1
          /\ UNCHANGED <<exc, raised_at>>
       \/ /\ calls' = Append(calls, Call("destroy_node", driver, test_node,
                                          "", "upload", FALSE))
          /\ Raise("Exception")
          /\ UNCHANGED ix
    /\ UNCHANGED <<config, util_amis, test_amis, handles, test_success,
                   dup_count, driver, image_name, registration_aki,
                   copied_images, delete_images, after, status, msgs>>

\* Lines 405-409, image ix of self.images.
MakePublic ==
    /\ pc = "make_public"
    /\ IF ix > Len(images)
       THEN /\ pc' = "else"
            /\ UNCHANGED <<calls, ix, exc, raised_at>>
       ELSE \/ /\ calls' = Append(calls, Call("ex_modify_image_attribute",
                                 driver, images[ix], "", "upload", TRUE))
               /\ ix' = ix + 1
               /\ UNCHANGED <<pc, exc, raised_at>>
            \/ /\ calls' = Append(calls, Call("ex_modify_image_attribute",
                                 driver, images[ix], "", "upload", FALSE))
               /\ Raise("Exception")
               /\ UNCHANGED ix
    /\ UNCHANGED <<config, util_amis, test_amis, handles, test_success,
                   dup_count, driver, image_name, registration_aki,
                   copied_images, delete_images, after, status, msgs>>

\* The except clause that takes an exception of class e: the first of
\* lines 411, 418, 425, 432 whose class e is an instance of.
Clause(e) ==
    CASE e = "EC2UtilityException" -> 411
      [] e = "EC2AMITestException" -> 418
      [] e = "DeploymentException" -> 425
      [] OTHER -> 432

\* Mutant of Except: _clean_up is called whatever CLEAN_UP_ON_FAILURE says.
Except_AlwaysCleans ==
    /\ pc = "except"
    /\ IF driver = "unset"
       THEN /\ Escape
            /\ UNCHANGED <<delete_images, after, ix>>
       ELSE /\ pc' = "cl_images"
            /\ delete_images' = DELETE_IMAGES_ON_FAILURE
            /\ after' = "return 1"
            /\ ix' = 1
            /\ UNCHANGED status
    /\ UNCHANGED <<config, util_amis, test_amis, handles, test_success,
                   dup_count, driver, image_name, registration_aki,
                   copied_images, exc, raised_at, calls, msgs>>

\* Lines 411-438: the four clauses have one body.  self.driver is read to
\* call _clean_up: AttributeError when line 190 has not assigned it.
Except ==
    /\ pc = "except"
    /\ Clause(exc) \in {411, 418, 425, 432}
    /\ IF CLEAN_UP_ON_FAILURE
       THEN IF driver = "unset"
            THEN /\ Escape
                 /\ UNCHANGED <<delete_images, after, ix>>
            ELSE /\ pc' = "cl_images"
                 /\ delete_images' = DELETE_IMAGES_ON_FAILURE
                 /\ after' = "return 1"
                 /\ ix' = 1
                 /\ UNCHANGED status
       ELSE /\ pc' = "done"
            /\ status' = "returned 1"
            /\ UNCHANGED <<delete_images, after, ix>>
    /\ UNCHANGED <<config, util_amis, test_amis, handles, test_success,
                   dup_count, driver, image_name, registration_aki,
                   copied_images, exc, raised_at, calls, msgs>>

\* Lines 440-441: no exception left the try body.
Else ==
    /\ pc = "else"
    /\ pc' = "cl_images"
    /\ delete_images' = FALSE
    /\ after' = "replicate"
    /\ ix' = 1
    /\ UNCHANGED <<config, util_amis, test_amis, handles, test_success,
                   dup_count, driver, image_name, registration_aki,
                   copied_images, exc, raised_at, status, calls, msgs>>

\* ----------------------------------------------------------- _clean_up

\* What every step of _clean_up leaves alone.
CleanFrame ==
    UNCHANGED <<config, util_amis, test_amis, images, test_success,
                dup_count, driver, image_name, registration_aki,
                copied_images, delete_images, after, exc, raised_at, msgs>>

\* A teardown call of _clean_up on its `driver` argument (self.driver at
\* both call sites).
Teardown(op, tgt, ok) == Call(op, driver, tgt, "", "_clean_up", ok)

\* Lines 147-149: with delete_images, delete_image for image ix.  Nothing
\* in _clean_up catches: an exception of a teardown call leaves upload().
CleanDeleteImages ==
    /\ pc = "cl_images"
    /\ IF delete_images /\ Len(images) > 0 /\ ix <= Len(images)
       THEN \/ /\ calls' = Append(calls,
                                 Teardown("delete_image", images[ix], TRUE))
               /\ ix' = ix + 1
               /\ UNCHANGED <<pc, status>>
            \/ /\ calls' = Append(calls,
                                 Teardown("delete_image", images[ix], FALSE))
               /\ Escape
               /\ UNCHANGED ix
       ELSE /\ pc' = "cl_snapshot"
            /\ UNCHANGED <<calls, ix, status>>
    /\ UNCHANGED <<util_node, util_volume, snapshot, test_node>>
    /\ CleanFrame

\* The snapshot as the calls name it: its id, whatever its state.
SnapshotId(s) == [s EXCEPT !.tag = ""]

\* Mutant of CleanSnapshot: the snapshot is destroyed whenever there is
\* one, registered image or not.
CleanSnapshot_Always ==
    /\ pc = "cl_snapshot"
    /\ IF snapshot # None
       THEN /\ calls' = Append(calls, Teardown("destroy_volume_snapshot",
                              SnapshotId(snapshot), TRUE))
            /\ snapshot' = None
       ELSE UNCHANGED <<calls, snapshot>>
    /\ pc' = "cl_util_node"
    /\ UNCHANGED <<util_node, util_volume, test_node, ix, status>>
    /\ CleanFrame

\* Lines 151-153.
CleanSnapshot ==
    /\ pc = "cl_snapshot"
    /\ IF snapshot # None /\ Len(images) = 0
       THEN \/ /\ calls' = Append(calls, Teardown("destroy_volume_snapshot",
                                 SnapshotId(snapshot), TRUE))
               /\ snapshot' = None
               /\ pc' = "cl_util_node"
               /\ UNCHANGED status
            \/ /\ calls' = Append(calls, Teardown("destroy_volume_snapshot",
                                 SnapshotId(snapshot), FALSE))
               /\ Escape
               /\ UNCHANGED snapshot
       ELSE /\ pc' = "cl_util_node"
            /\ UNCHANGED <<calls, snapshot, status>>
    /\ UNCHANGED <<util_node, util_volume, test_node, ix>>
    /\ CleanFrame

\* Lines 155-162: destroy_node (line 157), then one turn of the wait of
\* lines 158-161 per step: while SSH on the node still answers the loop
\* sleeps and asks again, with the handle still in self.util_node; when it
\* stops answering, line 162 clears the handle; ssh_connection_works may
\* raise.  Nothing assigns self.util_node after line 73.
CleanUtilNode ==
    /\ pc \in {"cl_util_node", "cl_util_node_wait"}
    /\ IF pc = "cl_util_node_wait"
       THEN \/ UNCHANGED <<calls, util_node, pc, status>>
            \/ /\ util_node' = None
               /\ pc' = "cl_util_volume"
               /\ UNCHANGED <<calls, status>>
            \/ /\ Escape
               /\ UNCHANGED <<calls, util_node>>
       ELSE IF util_node # None
            THEN \/ /\ calls' = Append(calls,
                                  Teardown("destroy_node", util_node, TRUE))
                    /\ pc' = "cl_util_node_wait"
                    /\ UNCHANGED <<util_node, status>>
                 \/ /\ calls' = Append(calls,
                                  Teardown("destroy_node", util_node, FALSE))
                    /\ Escape
                    /\ UNCHANGED util_node
            ELSE /\ pc' = "cl_util_volume"
                 /\ UNCHANGED <<calls, util_node, status>>
    /\ UNCHANGED <<util_volume, snapshot, test_node, ix>>
    /\ CleanFrame

\* Mutant of CleanUtilVolume: destroy_volume is called without the test of
\* line 163.
CleanUtilVolume_NoGuard ==
    /\ pc = "cl_util_volume"
    /\ \/ /\ calls' = Append(calls,
                              Teardown("destroy_volume", util_volume, TRUE))
          /\ util_volume' = None
          /\ pc' = "cl_test_node"
          /\ UNCHANGED status
       \/ /\ calls' = Append(calls,
                              Teardown("destroy_volume", util_volume, FALSE))
          /\ Escape
          /\ UNCHANGED util_volume
    /\ UNCHANGED <<util_node, snapshot, test_node, ix>>
    /\ CleanFrame

\* Lines 163-166.
CleanUtilVolume ==
    /\ pc = "cl_util_volume"
    /\ IF util_volume # None
       THEN \/ /\ calls' = Append(calls,
                                 Teardown("destroy_volume", util_volume, TRUE))
               /\ util_volume' = None
               /\ pc' = "cl_test_node"
               /\ UNCHANGED status
            \/ /\ calls' = Append(calls,
                                 Teardown("destroy_volume", util_volume, FALSE))
               /\ Escape
               /\ UNCHANGED util_volume
       ELSE /\ pc' = "cl_test_node"
            /\ UNCHANGED <<calls, util_volume, status>>
    /\ UNCHANGED <<util_node, snapshot, test_node, ix>>
    /\ CleanFrame

\* _clean_up returns: to `return 1` of the except clause (lines 416, 423,
\* 430, 438) or to line 443.
CleanReturn ==
    IF after = "return 1"
    THEN /\ pc' = "done"
         /\ status' = "returned 1"
    ELSE /\ pc' = "replicate"
         /\ UNCHANGED status

\* Lines 167-169.
CleanTestNode ==
    /\ pc = "cl_test_node"
    /\ IF test_node # None
       THEN \/ /\ calls' = Append(calls,
                                 Teardown("destroy_node", test_node, TRUE))
               /\ test_node' = None
               /\ CleanReturn
            \/ /\ calls' = Append(calls,
                                 Teardown("destroy_node", test_node, FALSE))
               /\ Escape
               /\ UNCHANGED test_node
       ELSE /\ CleanReturn
            /\ UNCHANGED <<calls, test_node>>
    /\ UNCHANGED <<util_node, util_volume, snapshot, ix>>
    /\ CleanFrame

\* -------------------------------------------- upload(): replication phase

\* Line 443-445: falling off the end of upload() returns None.
Replicate ==
    /\ pc = "replicate"
    /\ IF test_success
       THEN /\ copied_images' = <<>>
            /\ ix' = 2
            /\ pc' = "copy_next"
            /\ UNCHANGED status
       ELSE /\ pc' = "done"
            /\ status' = "returned None"
            /\ UNCHANGED <<copied_images, ix>>
    /\ UNCHANGED <<config, util_amis, test_amis, handles, test_success,
                   dup_count, driver, image_name, registration_aki,
                   delete_images, after, exc, raised_at, calls, msgs>>

\* Mutant of CopyNext: every region starts its names from 0 again.
CopyNext_ResetsCounter ==
    /\ pc = "copy_next"
    /\ IF ix > Len(test_amis)
       THEN /\ pc' = "publish"
            /\ UNCHANGED <<msgs, image_name, status, dup_count>>
       ELSE /\ msgs' = Append(msgs, Message("image.upload",
                               test_amis[ix].region, "started", None, ""))
            /\ dup_count' = 0
            /\ \/ /\ image_name' = FirstName(test_amis[ix].region)
                  /\ pc' = "copy"
                  /\ UNCHANGED status
               \/ /\ Escape
                  /\ UNCHANGED image_name
    /\ UNCHANGED <<config, util_amis, test_amis, handles, test_success,
                   driver, registration_aki, copied_images, ix,
                   delete_images, after, exc, raised_at, calls>>

\* Lines 448-472, for ami = test_amis[ix], an element of self.test_amis[1:]:
\* the 'started' message, the driver of the region (an exception here is
\* outside every try), the first name.
CopyNext ==
    /\ pc = "copy_next"
    /\ IF ix > Len(test_amis)
       THEN /\ pc' = "publish"
            /\ UNCHANGED <<msgs, image_name, status>>
       ELSE /\ msgs' = Append(msgs, Message("image.upload",
                               test_amis[ix].region, "started", None, ""))
            /\ \/ /\ image_name' = FirstName(test_amis[ix].region)
                  /\ pc' = "copy"
                  /\ UNCHANGED status
               \/ /\ Escape
                  /\ UNCHANGED image_name
    /\ UNCHANGED <<config, util_amis, test_amis, handles, test_success,
                   dup_count, driver, registration_aki, copied_images, ix,
                   delete_images, after, exc, raised_at, calls>>

\* The copy_image call of lines 489-493 on the driver of test_amis[ix]:
\* the source region is self.test_amis[0]['region'].
CopyCall(name, ok) ==
    Call("copy_image", test_amis[ix].region, name, test_amis[1].region,
         "upload", ok)

\* Mutant of CopyImage: a duplicate name counts up and gives the region
\* up, instead of going round the loop with the next name.
CopyImage_DuplicateSkips ==
    /\ pc = "copy"
    /\ LET name == Rename(image_name, dup_count)
       IN /\ image_name' = name
          /\ \/ /\ calls' = Append(calls, CopyCall(name, TRUE))
                /\ copied_images' = Append(copied_images, CopyOf(name))
                /\ UNCHANGED <<dup_count, msgs>>
             \/ /\ dup_count < MaxDup
                /\ calls' = Append(calls, Rejected(CopyCall(name, FALSE),
                                                   "InvalidAMIName.Duplicate"))
                /\ dup_count' = dup_count + 1
                /\ UNCHANGED <<copied_images, msgs>>
             \/ /\ calls' = Append(calls, CopyCall(name, FALSE))
                /\ \/ msgs' = Append(msgs, Message("image.upload",
                                   test_amis[ix].region, "failed", None, ""))
                   \/ UNCHANGED msgs
                /\ UNCHANGED <<copied_images, dup_count>>
          /\ \/ /\ msgs' # msgs \/ calls'[Len(calls')].err # "error"
                /\ ix' = ix + 1
                /\ pc' = "copy_next"
                /\ UNCHANGED status
             \/ /\ calls'[Len(calls')].err = "error"
                /\ Escape
                /\ UNCHANGED ix
    /\ UNCHANGED <<config, util_amis, test_amis, handles, test_success,
                   driver, registration_aki, delete_images, after, exc,
                   raised_at>>

\* Lines 478-519, one turn of the loop (self.images holds one image): the
\* copy is appended, or the error names InvalidAMIName.Duplicate and the
\* loop goes round, or a 'failed' message is sent; then the next region.
\* The handler is outside every try: when the test of line 503 raises
\* (e.message is no text: TypeError) no message is sent and the exception
\* leaves upload(); so does an exception of sending the 'failed' message.
CopyImage ==
    /\ pc = "copy"
    /\ LET name == Rename(image_name, dup_count)
       IN /\ image_name' = name
          /\ \/ /\ calls' = Append(calls, CopyCall(name, TRUE))
                /\ copied_images' = Append(copied_images, CopyOf(name))
                /\ ix' = ix + 1
                /\ pc' = "copy_next"
                /\ UNCHANGED <<dup_count, msgs, status>>
             \/ /\ dup_count < MaxDup
                /\ calls' = Append(calls, Rejected(CopyCall(name, FALSE),
                                                   "InvalidAMIName.Duplicate"))
                /\ dup_count' = dup_count + 1
                /\ UNCHANGED <<copied_images, ix, pc, msgs, status>>
             \/ /\ calls' = Append(calls, CopyCall(name, FALSE))
                /\ msgs' = Append(msgs, Message("image.upload",
                                   test_amis[ix].region, "failed", None, ""))
                /\ \/ /\ ix' = ix + 1
                      /\ pc' = "copy_next"
                      /\ UNCHANGED status
                   \/ /\ Escape
                      /\ UNCHANGED ix
                /\ UNCHANGED <<copied_images, dup_count>>
             \/ /\ calls' = Append(calls, CopyCall(name, FALSE))
                /\ Escape
                /\ UNCHANGED <<copied_images, dup_count, ix, msgs>>
    /\ UNCHANGED <<config, util_amis, test_amis, handles, test_success,
                   driver, registration_aki, delete_images, after, exc,
                   raised_at>>

\* Line 526: self.test_amis = self.test_amis[1:].
Publish ==
    /\ pc = "publish"
    /\ test_amis' = IF test_amis = <<>> THEN <<>> ELSE Tail(test_amis)
    /\ ix' = 1
    /\ pc' = "publish_next"
    /\ UNCHANGED <<config, util_amis, handles, test_success, dup_count,
                   driver, image_name, registration_aki, copied_images,
                   delete_images, after, exc, raised_at, status, calls, msgs>>

\* copied_images.index(image) for the image at position i: image objects
\* compare by identity, so it is the position itself (from 0 in Python).
IndexOf(i) == i

\* ami = self.test_amis[copied_images.index(image)] (line 529).
PublishAmi == test_amis[IndexOf(ix)]

\* Lines 528-535 for copied_images[ix]: the driver of the region of
\* PublishAmi (an exception here is outside every try); line 565 after the
\* last copy.
PublishNext ==
    /\ pc = "publish_next"
    /\ IF ix > Len(copied_images)
       THEN /\ pc' = "done"
            /\ status' = "returned 0"
       ELSE \/ /\ pc' = "make_copy_public"
               /\ UNCHANGED status
            \/ Escape
    /\ UNCHANGED <<config, util_amis, test_amis, handles, test_success,
                   dup_count, driver, locals, exc, raised_at, calls, msgs>>

\* The ex_modify_image_attribute call of lines 542-544.
PublishCall(ok) ==
    Call("ex_modify_image_attribute", PublishAmi.region, copied_images[ix],
         "", "upload", ok)

\* Lines 539-563, one turn of the loop: InvalidAMIID.Unavailable goes
\* round; success and every other error leave the loop, and the
\* 'completed' message follows.  The handler and the message are outside
\* every try: when the test of line 546 raises (e.message is no text:
\* TypeError) no message is sent and the exception leaves upload(); so
\* does an exception of sending the message.
MakeCopyPublic ==
    /\ pc = "make_copy_public"
    /\ \/ /\ \E ok \in BOOLEAN :
                calls' = Append(calls, PublishCall(ok))
          /\ msgs' = Append(msgs, Message("image.upload", PublishAmi.region,
                                          "completed", copied_images[ix], ""))
          /\ \/ /\ ix' = ix + 1
                /\ pc' = "publish_next"
                /\ UNCHANGED status
             \/ /\ Escape
                /\ UNCHANGED ix
          /\ UNCHANGED unavailable
       \/ /\ calls' = Append(calls, PublishCall(FALSE))
          /\ Escape
          /\ UNCHANGED <<msgs, ix, unavailable>>
       \/ /\ unavailable < MaxUnavailable
          /\ unavailable' = unavailable + 1
          /\ calls' = Append(calls, Rejected(PublishCall(FALSE),
                                             "InvalidAMIID.Unavailable"))
          /\ UNCHANGED <<msgs, ix, pc, status>>
    /\ UNCHANGED <<AWS_AMIS, CLEAN_UP_ON_FAILURE, DELETE_IMAGES_ON_FAILURE,
                   patched, who, other, virt_type, image_arch, util_amis,
                   test_amis, handles, test_success, dup_count, driver,
                   image_name,
                   registration_aki, copied_images, delete_images, after,
                   exc, raised_at>>

Next ==
    \/ Start \/ Connect \/ DownloadImage \/ ImportVolume \/ MatchTaskId
    \/ DescribeConversionTasks \/ CreateSnapshot \/ CheckSnapshotExists
    \/ DestroyUtilVolume \/ PrepareRegistration \/ RegisterImage
    \/ NotifyUploaded \/ PrepareTest \/ DeployTestNode \/ WaitSSH
    \/ OpenChannel \/ RunTest \/ DestroyTestNode \/ MakePublic
    \/ Except \/ Else
    \/ CleanDeleteImages \/ CleanSnapshot \/ CleanUtilNode
    \/ CleanUtilVolume \/ CleanTestNode
    \/ Replicate \/ CopyNext \/ CopyImage \/ Publish \/ PublishNext
    \/ MakeCopyPublic

Spec == Init /\ [][Next]_vars

\* The runs that replicate to up to MaxReplicas regions.
SpecReplicas == InitReplicas /\ [][Next]_vars

\* --------------------------------------------------- two EC2Service runs

\* What belongs to one EC2Service object and its call of upload(): the
\* constructor arguments, the fields that __init__ assigns on `self`
\* (lines 68-87, 130-142; the class body binds no attribute but methods),
\* the locals of upload() and _clean_up, the position of the control
\* flow, and the calls and messages the object has made and sent.
RunState ==
    [virt_type |-> virt_type, image_arch |-> image_arch,
     util_amis |-> util_amis, test_amis |-> test_amis,
     util_node |-> util_node, util_volume |-> util_volume,
     images |-> images, snapshot |-> snapshot, test_node |-> test_node,
     test_success |-> test_success, dup_count |-> dup_count,
     driver |-> driver, image_name |-> image_name,
     registration_aki |-> registration_aki,
     copied_images |-> copied_images, ix |-> ix,
     delete_images |-> delete_images, after |-> after,
     pc |-> pc, exc |-> exc, raised_at |-> raised_at, status |-> status,
     unavailable |-> unavailable, calls |-> calls, msgs |-> msgs]

\* The scheduler takes the processor from the thread of one object and
\* gives it to the thread of the other: the fields of the object that
\* ran are put aside as they are, and those of the other are the ones
\* the next step works on.  fedimg.AWS_AMIS and the two flags are module
\* attributes of fedimg, one for the process.
Switch ==
    /\ other # NoRun
    /\ who' = 3 - who
    /\ other' = RunState
    /\ virt_type' = other.virt_type
    /\ image_arch' = other.image_arch
    /\ util_amis' = other.util_amis
    /\ test_amis' = other.test_amis
    /\ util_node' = other.util_node
    /\ util_volume' = other.util_volume
    /\ images' = other.images
    /\ snapshot' = other.snapshot
    /\ test_node' = other.test_node
    /\ test_success' = other.test_success
    /\ dup_count' = other.dup_count
    /\ driver' = other.driver
    /\ image_name' = other.image_name
    /\ registration_aki' = other.registration_aki
    /\ copied_images' = other.copied_images
    /\ ix' = other.ix
    /\ delete_images' = other.delete_images
    /\ after' = other.after
    /\ pc' = other.pc
    /\ exc' = other.exc
    /\ raised_at' = other.raised_at
    /\ status' = other.status
    /\ unavailable' = other.unavailable
    /\ calls' = other.calls
    /\ msgs' = other.msgs
    /\ UNCHANGED <<AWS_AMIS, CLEAN_UP_ON_FAILURE, DELETE_IMAGES_ON_FAILURE,
                   patched>>

\* The catalog of the two-run specification: an origin and one region to
\* copy to.
TwoRunCatalog ==
    <<[nf |-> 4, region |-> "us-east-1", arch |-> "x86_64"],
      [nf |-> 4, region |-> "eu-west-1", arch |-> "x86_64"]>>

\* Two objects constructed with the same arguments in a process that
\* runs the module as it stands; neither has started upload().
InitTwoRuns ==
    /\ Construct({TwoRunCatalog}, {"x86_64"})
    /\ ~patched
    /\ who = 1
    /\ other = RunState

\* The steps of upload() that the module as it stands can take (no other
\* action of Next is enabled there), and the switch between the objects.
NextTwoRuns ==
    \/ Start \/ Connect \/ DownloadImage \/ ImportVolume \/ MatchTaskId
    \/ Except
    \/ CleanDeleteImages \/ CleanSnapshot \/ CleanUtilNode
    \/ CleanUtilVolume \/ CleanTestNode
    \/ Switch

\* Every interleaving of the steps of two runs of the module as it stands.
SpecTwoRuns == InitTwoRuns /\ [][NextTwoRuns]_vars

\* upload() is one thread of control that keeps running: whenever some
\* step can change the state, one is taken.  The polls of lines 641-667,
\* 689-704, 158-161 and 344-348 go round for as long as the provider
\* answers 'not yet' or the poll raises; a run in which one does so for
\* ever is a run of the code that this specification leaves out: it is
\* the runs in which every poll that can still be answered is answered
\* at some time.  The rejections for a duplicate name and the 'not yet
\* available' answers are finitely many by MaxDup and MaxUnavailable.
FairSpec == Spec /\ WF_vars(Next)

\* ------------------------------------------------- reading the histories

\* The module as it stands: no name replaced or bound from outside.
AsGiven == ~patched

\* The utility set as __init__ computed it (lines 139-140).
UtilSet == FilterArch(ParseCatalog(AWS_AMIS).amis, "x86_64")

\* The test set as __init__ computed it (lines 141-142).
TestSet == FilterArch(ParseCatalog(AWS_AMIS).amis, image_arch)

Done == pc = "done"

Returned0 == status = "returned 0"

Returned1 == status = "returned 1"

\* A make-public call: ex_modify_image_attribute with
\* {'LaunchPermission.Add.1.Group': 'all'}, on an origin image or on a copy.
IsMakePublic(c) == c.op = "ex_modify_image_attribute"

IsOriginImage(h) == h.kind = "image"

TeardownOps == {"destroy_node", "destroy_volume", "delete_image",
                "destroy_volume_snapshot"}

IsTeardown(c) == c.op \in TeardownOps

ByCleanUp(c) == c.by = "_clean_up"

IsTestNode(h) == h.kind = "node" /\ h.tag = "test"

\* The test node was deployed: deploy_node returned.
Deployed == \E i \in DOMAIN calls : calls[i].op = "deploy_node" /\ calls[i].ok

\* The image was registered: an ex_register_image call under its name
\* returned.
Registered(img) ==
    \E i \in DOMAIN calls :
        /\ calls[i].op = "ex_register_image"
        /\ calls[i].ok
        /\ ImageOf(calls[i].tgt) = img

\* A make-public call on the image returned.
MadePublic(img) ==
    \E i \in DOMAIN calls :
        IsMakePublic(calls[i]) /\ calls[i].ok /\ calls[i].tgt = img

\* An 'image.test' message of the given phase about the image.
TestMsg(phase, img) ==
    \E k \in DOMAIN msgs :
        msgs[k].topic = "image.test" /\ msgs[k].phase = phase
          /\ msgs[k].id = img

\* An origin 'image.upload completed' message.
IsOriginCompleted(m) ==
    m.topic = "image.upload" /\ m.phase = "completed" /\ IsOriginImage(m.id)

\* ------------------------------------------------------------------ C1

\* C1: a make-public call on an origin image is issued only after the boot
\* test, run on a node deployed from that image, returned exit status 0:
\* whenever such a call is in the history, the test verdict is passed, the
\* 'image.test completed' message about that image has been sent, and a
\* deploy_node call from that image returned earlier in the history.
C1_PublicOnlyAfterPassedTest ==
    \A i \in DOMAIN calls :
        (IsMakePublic(calls[i]) /\ IsOriginImage(calls[i].tgt)) =>
            /\ test_success
            /\ TestMsg("completed", calls[i].tgt)
            /\ ~TestMsg("failed", calls[i].tgt)
            /\ \E j \in 1..(i - 1) :
                  /\ calls[j].op = "deploy_node"
                  /\ calls[j].ok
                  /\ calls[j].tgt = calls[i].tgt

C1_Witness ==
    \E i \in DOMAIN calls :
        IsMakePublic(calls[i]) /\ IsOriginImage(calls[i].tgt) /\ calls[i].ok

\* ------------------------------------------------------------------ C2

\* C2 (as claimed), for a run that has an origin region: a run in which an
\* exception left the try body of the origin phase ends by returning 1, a
\* run in which none did ends by returning 0, and a finished run has
\* returned one of the two.
C2_ReturnsZeroOrOne ==
    (Done /\ status # "init raised" /\ util_amis # <<>>) =>
        /\ status \in {"returned 0", "returned 1"}
        /\ exc # "none" => Returned1
        /\ exc = "none" => Returned0

\* ------------------------------------------------------------------ C3

\* C3 (as claimed), in the module as it stands: when upload() is over, a
\* status 0 or an origin 'image.upload completed' message is there only
\* if the origin image was registered, passed the boot test and was made
\* public; and a run in which an exception left the try body of the origin
\* phase, which is every run that did not get that far, has returned 1.
C3_NoPartialSuccess ==
    (AsGiven /\ Done /\ status # "init raised") =>
        /\ Returned0 =>
              /\ images # <<>>
              /\ test_success
              /\ \A k \in DOMAIN images : MadePublic(images[k])
        /\ \A k \in DOMAIN msgs :
              IsOriginCompleted(msgs[k]) =>
                  /\ Registered(msgs[k].id)
                  /\ test_success
                  /\ MadePublic(msgs[k].id)
        /\ exc # "none" => Returned1

\* ------------------------------------------------------------------ C4

\* The utility volume was resolved (line 680) and self.util_volume set:
\* create_volume_snapshot (line 683) was called on it.  A list_volumes
\* call that returned does not say so: the list may lack the volume.
VolumeResolved ==
    \E i \in DOMAIN calls : calls[i].op = "create_volume_snapshot"

\* A destroy_volume call by _clean_up, or the one of line 220.
VolumeDestroyCalled ==
    \E i \in DOMAIN calls : calls[i].op = "destroy_volume"

DeleteCalled(img) ==
    \E i \in DOMAIN calls :
        calls[i].op = "delete_image" /\ calls[i].tgt = img

IsSnapshotDestroy(c) == c.op = "destroy_volume_snapshot"

\* A snapshot was created (line 683).
SnapshotCreated ==
    \E i \in DOMAIN calls : calls[i].op = "create_volume_snapshot" /\ calls[i].ok

\* _clean_up is past its snapshot decision (line 151), or has returned to
\* the except clause that returned 1.
PastSnapshotDecision ==
    \/ pc \in {"cl_util_node", "cl_util_node_wait", "cl_util_volume", "cl_test_node"}
    \/ Returned1 /\ CLEAN_UP_ON_FAILURE

\* C7: destroy-snapshot is called exactly when a cleanup finds a snapshot
\* and no registered image: no destroy-snapshot call follows a registration
\* that succeeded, whatever the path and the flags (also when the images
\* were deleted); a cleanup that finds a snapshot and no image has called
\* destroy-snapshot once it is past the decision; and a cleanup that finds
\* an image leaves the snapshot handle in place.
C7_SnapshotDestroyedIffNoImage ==
    /\ \A i \in DOMAIN calls :
          IsSnapshotDestroy(calls[i]) =>
              /\ ByCleanUp(calls[i])
              /\ images = <<>>
              /\ \A j \in DOMAIN calls :
                    ~(calls[j].op = "ex_register_image" /\ calls[j].ok)
              /\ \E j \in 1..(i - 1) :
                    calls[j].op = "create_volume_snapshot" /\ calls[j].ok
    /\ (PastSnapshotDecision /\ SnapshotCreated /\ images = <<>>)
          => \E i \in DOMAIN calls : IsSnapshotDestroy(calls[i])
    /\ (PastSnapshotDecision /\ images # <<>>) => snapshot # None

C7_Witness ==
    /\ \E i \in DOMAIN calls : IsSnapshotDestroy(calls[i]) /\ calls[i].ok
    /\ Returned1

\* ----------------------------------------------------------------- C11

\* The copy_image calls of the run, in order.
CopyCalls == SelectSeq(calls, LAMBDA c : c.op = "copy_image")

IsDuplicate(c) == c.err = "InvalidAMIName.Duplicate"

\* The entries of the test set copies go to: all but the first.
Replicas == IF TestSet = <<>> THEN <<>> ELSE Tail(TestSet)

\* The loop of lines 448-519 is over.
CopiesOver ==
    pc \in {"publish", "publish_next", "make_copy_public"} \/ Returned0

\* The copy calls rejected for a duplicate name, and those that failed
\* otherwise, by position in CopyCalls.
DuplicateCopies == {i \in DOMAIN CopyCalls : IsDuplicate(CopyCalls[i])}

FailedCopies ==
    {i \in DOMAIN CopyCalls : ~CopyCalls[i].ok /\ ~IsDuplicate(CopyCalls[i])}

\* C11: when exactly one copy call of the run is rejected for a duplicate
\* name and no copy fails otherwise, the rejected call is followed by one
\* more call in the same region, under the name with the next number, which
\* succeeds; the counter has grown by one; and every other region of the
\* replicas has exactly one copy call, which succeeds, in catalog order.
C11_OneDuplicateOneRetry ==
    (CopiesOver /\ Cardinality(DuplicateCopies) = 1 /\ FailedCopies = {})
       => LET cc == CopyCalls
              p == CHOOSE i \in DuplicateCopies : TRUE
              first == [i \in 1..(Len(cc) - 1) |->
                          IF i <= p THEN cc[i] ELSE cc[i + 1]]
          IN /\ Len(cc) = Len(Replicas) + 1
             /\ cc[p + 1].ok
             /\ cc[p + 1].drv = cc[p].drv
             /\ cc[p + 1].tgt.n = cc[p].tgt.n + 1
             /\ dup_count = cc[p].tgt.n + 1
             /\ \A i \in DOMAIN first :
                   /\ first[i].drv = Replicas[i].region
                   /\ i # p => first[i].ok

\* The first of two replica regions rejects the name once, and the copy
\* loop is over.
C11_Witness ==
    /\ CopiesOver
    /\ Len(Replicas) >= 2
    /\ DuplicateCopies = {1}
    /\ FailedCopies = {}
    /\ Len(copied_images) = Len(Replicas)

\* ----------------------------------------------------------------- C13

\* The calls of the run rejected for a duplicate name, by position.
DuplicateRejections == {i \in DOMAIN calls : IsDuplicate(calls[i])}

\* C13: in every state the counter equals the number of registration and
\* copy calls rejected so far for a duplicate name: it starts at 0, one
\* count serves the origin and the copies, each rejection adds exactly 1,
\* and nothing else changes it.
C13_CounterCountsRejections ==
    /\ dup_count = Cardinality(DuplicateRejections)
    /\ \A i \in DuplicateRejections :
          calls[i].op \in {"ex_register_image", "copy_image"}

\* The registration was rejected once for a duplicate name, and a copy was
\* then made under the name that ends in the count.
C13_Witness ==
    /\ dup_count = 1
    /\ \E i \in DuplicateRejections : calls[i].op = "ex_register_image"
    /\ \E j \in DOMAIN CopyCalls :
          CopyCalls[j].ok /\ CopyCalls[j].tgt.n = 1

\* ----------------------------------------------------------------- C14

\* The calls that submit a name: registrations and copies.
IsNaming(c) == c.op \in {"ex_register_image", "copy_image"}

\* The value of the counter when call i was made: the rejections for a
\* duplicate name before it (C13).
CounterAt(i) == Cardinality({j \in 1..(i - 1) : IsDuplicate(calls[j])})

\* C14: the name of every registration and copy call is the template
\* filled with the build name, the region the call is made in, PV or HVM,
\* the volume type and the value the counter had at the call; and two names
\* submitted in one region at different values of the counter differ.
C14_NamesFollowTemplate ==
    /\ \A i \in DOMAIN calls :
          IsNaming(calls[i]) =>
              NameText(calls[i].tgt) =
                  [build |-> <<"fedora-cloud-31-1">>, region |-> calls[i].drv,
                   virt |-> IF virt_type = "paravirtual" THEN "PV" ELSE "HVM",
                   vol |-> "standard", number |-> CounterAt(i)]
    /\ \A i, j \in DOMAIN calls :
          (/\ IsNaming(calls[i]) /\ IsNaming(calls[j])
           /\ calls[i].drv = calls[j].drv
           /\ CounterAt(i) # CounterAt(j))
             => NameText(calls[i].tgt) # NameText(calls[j].tgt)

\* A copy was rejected for a duplicate name and made under the next name
\* in the same region.
C14_Witness ==
    \E i, j \in DOMAIN CopyCalls :
        /\ i < j
        /\ IsDuplicate(CopyCalls[i])
        /\ CopyCalls[j].ok
        /\ CopyCalls[j].drv = CopyCalls[i].drv
        /\ NameText(CopyCalls[j].tgt) # NameText(CopyCalls[i].tgt)

\* ----------------------------------------------------------------- C15

\* C15: a registration call of a paravirtual run names the root device
\* /dev/sda and passes the kernel id of a test-set entry of the origin
\* region; one of an hvm run names /dev/sda1 and passes None.
C15_RootDeviceAndKernel ==
    \A i \in DOMAIN calls :
        calls[i].op = "ex_register_image" =>
            IF virt_type = "paravirtual"
            THEN /\ calls[i].root = "/dev/sda"
                 /\ calls[i].kernel # None
                 /\ \E k \in DOMAIN TestSet :
                       /\ TestSet[k].region = calls[i].drv
                       /\ TestSet[k].aki = calls[i].kernel
            ELSE /\ calls[i].root = "/dev/sda1"
                 /\ calls[i].kernel = None

\* A paravirtual i386 image was registered: its kernel id is the one of
\* the i386 entry of the origin region.
C15_Witness ==
    /\ virt_type = "paravirtual"
    /\ image_arch = "i386"
    /\ \E i \in DOMAIN calls :
          /\ calls[i].op = "ex_register_image"
          /\ calls[i].ok
          /\ calls[i].kernel.tag = "i386"

\* ----------------------------------------------------------------- C16

\* What the claim describes: one entry for every line of 4 or 6 fields,
\* in order, and nothing for any other line.
RECURSIVE OnePerGoodLine(_)
OnePerGoodLine(lines) ==
    IF lines = <<>> THEN <<>>
    ELSE IF Head(lines).nf \in {4, 6}
         THEN <<InfoOf(Head(lines))>> \o OnePerGoodLine(Tail(lines))
         ELSE OnePerGoodLine(Tail(lines))

\* C16 (as claimed): the constructor never raises on the catalog text,
\* and the utility set and the test set it leaves are the entries of the
\* lines of 4 or 6 fields, one each, filtered by architecture.
C16_BadLinesDropped ==
    /\ status # "init raised"
    /\ pc = "start" =>
          /\ util_amis = FilterArch(OnePerGoodLine(AWS_AMIS), "x86_64")
          /\ test_amis = FilterArch(OnePerGoodLine(AWS_AMIS), image_arch)

\* ----------------------------------------------------------------- C17

\* The scenario: fedora-cloud-31-1.raw.xz (file_name), an x86_64 image,
\* hvm, and the catalog us-east-1 then eu-west-1.
Scenario ==
    /\ AWS_AMIS = <<[nf |-> 4, region |-> "us-east-1", arch |-> "x86_64"],
                    [nf |-> 4, region |-> "eu-west-1", arch |-> "x86_64"]>>
    /\ image_arch = "x86_64"
    /\ virt_type = "hvm"

\* The statements of the try body that call nothing outside the module
\* and the libraries: lines 209-211, 230-254 (hvm) and 297-320.
CodeOnlySteps == {"match", "prepare_registration", "prepare_test"}

\* No driver call failed, no exception came from a statement that calls
\* the provider, a command, the test node or the messenger (lines 316-320,
\* the last statement of the step), and none left upload().
ProviderNeverFailed ==
    /\ \A i \in DOMAIN calls : calls[i].ok
    /\ raised_at \in {"none"} \cup CodeOnlySteps
    /\ raised_at = "prepare_test" =>
          \A k \in DOMAIN msgs : msgs[k].topic # "image.test"
    /\ status # "raised"

\* A call of operation op on the driver of `region` about the name or
\* handle whose text is `text` returned.
Succeeded(op, region, text) ==
    \E i \in DOMAIN calls :
        /\ calls[i].op = op
        /\ calls[i].drv = region
        /\ calls[i].ok
        /\ NameText(calls[i].tgt) = text

ScenarioName(region) ==
    [build |-> <<"fedora-cloud-31-1">>, region |-> region, virt |-> "HVM",
     vol |-> "standard", number |-> 0]

\* C17 (as claimed): a run of the scenario in which the provider never
\* fails has, when it is over, registered
\* fedora-cloud-31-1-us-east-1-HVM-standard-0 in us-east-1, passed the
\* test, made that image public, copied it to eu-west-1 as
\* fedora-cloud-31-1-eu-west-1-HVM-standard-0, made the copy public there,
\* and returned 0.
C17_EndToEnd ==
    (Scenario /\ Done /\ ProviderNeverFailed)
       => /\ Returned0
          /\ test_success
          /\ Succeeded("ex_register_image", "us-east-1",
                       ScenarioName("us-east-1"))
          /\ Succeeded("ex_modify_image_attribute", "us-east-1",
                       ScenarioName("us-east-1"))
          /\ Succeeded("copy_image", "eu-west-1", ScenarioName("eu-west-1"))
          /\ Succeeded("ex_modify_image_attribute", "eu-west-1",
                       ScenarioName("eu-west-1"))

\* ----------------------------------------------------------------- C18

\* C18 (as claimed), in the module as it stands: every run of upload()
\* that has entered the try body (line 187) comes to return a status.
C18_ReturnsAStatus ==
    AsGiven => ((pc = "connect") ~> (Returned0 \/ Returned1))

\* ----------------------------------------------------------------- C19

\* The fields, locals, position and histories of run r.
RunOf(r) == IF who = r THEN RunState ELSE other

\* The call c, made earlier by the same run, returned the resource h: the
\* volume that line 680 picked out of list_volumes (by the id of the run's
\* own conversion task), the snapshot of create_volume_snapshot, the node
\* of deploy_node, or the image of ex_register_image.
Produced(c, h) ==
    /\ c.ok
    /\ c.drv = h.region
    /\ CASE h.kind = "volume" -> c.op = "list_volumes" /\ c.tgt = h
         [] h.kind = "snapshot" -> c.op = "create_volume_snapshot"
         [] h.kind = "node" -> c.op = "deploy_node"
         [] h.kind = "image" ->
                c.op = "ex_register_image" /\ ImageOf(c.tgt) = h
         [] OTHER -> FALSE

\* Every teardown call in the history cs is about a resource that an
\* earlier call in cs returned.
OwnTeardowns(cs) ==
    \A i \in DOMAIN cs :
        IsTeardown(cs[i]) => \E j \in 1..(i - 1) : Produced(cs[j], cs[i].tgt)

\* C19, in the module as it stands: in every interleaving of the steps
\* of two runs, a step changes nothing of a run that is not the one
\* taking it (its duplicate-name counter, image list, test verdict,
\* resource handles, and the rest of its fields, locals and histories stay
\* as they were), and every teardown call a run has issued is about a
\* resource that an earlier call of the same run returned.
C19_RunsShareNoState ==
    /\ [](OwnTeardowns(RunOf(1).calls) /\ OwnTeardowns(RunOf(2).calls))
    /\ [][\A r \in {1, 2} :
             (who # r \/ who' # r) => RunOf(r)' = RunOf(r)]_vars

\* Run 1 was stopped in the handler, line 190 having raised; run 2 has
\* since connected, asked for the availability zones and returned 1 from
\* line 210.
C19_Witness ==
    /\ who = 2
    /\ Returned1
    /\ raised_at = "match"
    /\ driver = "us-east-1"
    /\ calls # <<>>
    /\ other.pc = "except"
    /\ other.raised_at = "connect"
    /\ other.driver = "unset"
    /\ other.calls = <<>>

\* ----------------------------------------------------------------- C20

\* C20, in the module as it stands: once the object is constructed, in
\* every state of upload() the utility set and the test set are the lists
\* __init__ computed, entry by entry and in their order.
C20_RegionSetsReadOnly ==
    (AsGiven /\ status # "init raised") =>
        /\ util_amis = UtilSet
        /\ test_amis = TestSet

\* upload() has read both sets (lines 177 and, on the way, none other) and
\* returned.
C20_Witness ==
    /\ AsGiven
    /\ Returned1
    /\ raised_at = "match"
    /\ Len(util_amis) = 2
    /\ test_amis # <<>>

\* ----------------------------------------------------------------- C26

\* Every guard of _clean_up (lines 147, 151, 155, 163, 167) is false: a
\* call of _clean_up in this state issues no call.
NothingToRelease ==
    /\ ~(delete_images /\ Len(images) > 0)
    /\ ~(snapshot # None /\ Len(images) = 0)
    /\ util_node = None
    /\ util_volume = None
    /\ test_node = None

\* _clean_up was called and has returned.
CleanUpReturned ==
    \/ after = "return 1" /\ Returned1
    \/ after = "replicate" /\ pc \notin {"cl_images", "cl_snapshot",
                                          "cl_util_node", "cl_util_node_wait",
                                          "cl_util_volume", "cl_test_node"}

\* C26, in the module as it stands: no destroy or delete call is issued
\* for a resource that does not exist (a handle that is None), none for a
\* resource that an earlier destroy or delete call of the run has already
\* released, and when _clean_up has returned it has left nothing that a
\* second call of it would issue a call for.
C26_SkipsMissing ==
    AsGiven =>
        /\ \A i \in DOMAIN calls :
              IsTeardown(calls[i]) => calls[i].tgt # None
        /\ \A i, j \in DOMAIN calls :
              (/\ i < j
               /\ IsTeardown(calls[i])
               /\ calls[i].ok
               /\ IsTeardown(calls[j]))
                 => calls[j].tgt # calls[i].tgt
        /\ CleanUpReturned => NothingToRelease

\* _clean_up ran on a run that held no resource, issued no call and
\* returned.
C26_Witness ==
    /\ AsGiven
    /\ CLEAN_UP_ON_FAILURE
    /\ raised_at = "match"
    /\ CleanUpReturned
    /\ \A i \in DOMAIN calls : ~IsTeardown(calls[i])

====
